---- MODULE Spec2Model ----
(***************************************************************************)
(* Model of generate_ec2_credentials.py: one run of main(), which          *)
(* authenticates against Keystone, lists the EC2 credentials of the user,  *)
(* asks the operator whether to create a new pair and creates one.         *)
(* The identity service and the operator are the environment: every        *)
(* response and every answer is drawn from a small set.                    *)
(***************************************************************************)
EXTENDS Integers, Sequences, FiniteSets, TLC

VARIABLES
    pc,          \* position of main(): see PCs
    password,    \* main: password (getpass)
    token,       \* main: token
    user_id,     \* main: user_id
    existing,    \* main: existing
    create_new,  \* main: create_new (the normalised answer)
    credential,  \* main: credential
    printed,     \* console output, a sequence of lines
    exit,        \* <<>> while running, <<code>> once the process has exited
    requests,    \* the HTTP requests issued so far, in order
    inflight,    \* number of requests issued and not yet answered
    prompts,     \* number of times the (y/n) prompt was shown
    authResp,    \* the service's answer to POST /auth/tokens
    authRet,     \* what get_keystone_token returned
    listResp,    \* the service's answer to GET .../credentials/OS-EC2
    createResp,  \* the service's answer to POST .../credentials/OS-EC2
    answer,      \* the operator's raw answer to the prompt
    crash,       \* the unhandled exception that ended the run, or None
    path         \* the positions main() has been at, in order

vars == <<pc, password, token, user_id, existing, create_new, credential,
          printed, exit, requests, inflight, prompts, authResp, authRet,
          listResp, createResp, answer, crash, path>>

----------------------------------------------------------------------------
(* Bounds of the model *)

\* longest operator answer, in characters
MaxAnsLen == 3
\* longest list of credentials the service returns
MaxCreds == 2

----------------------------------------------------------------------------
(* Values *)

\* Python's None (distinct from the string "None")
None == "<None>"

\* f"{x}": None is printed as the text None, a string as itself
Str(x) == IF x = None THEN "None" ELSE x

\* truth value of a str-or-None
Truthy(x) == x # None /\ x # ""

Line(tag, val, num) == [tag |-> tag, val |-> val, num |-> num]

PCs == {"Start", "AuthRequest", "Authenticated", "ListRequest", "Listed",
        "Prompt", "CreateRequest", "Done", "Fail", "Crashed"}

Passwords == {"pw1", "pw2"}

\* the configuration constants of lines 16-22 that the requests use
OS_AUTH_URL == "https://api.pub1.infomaniak.cloud/identity/v3"
OS_PROJECT_ID == "b45e6f3c29a34aa6b99cea829122a734"

NoResp == [kind |-> "none"]

(* Responses to the token request: a transport error, or a status with an  *)
(* optional X-Subject-Token header and a body that is not JSON, JSON       *)
(* without token.user.id, or JSON whose token.user.id is null, "" or "u1". *)
AuthBodies == {[json |-> "unparsable", id |-> None],
               [json |-> "nopath", id |-> None],
               [json |-> "ok", id |-> None],
               [json |-> "ok", id |-> ""],
               [json |-> "ok", id |-> "u1"]}

AuthResponses ==
    {[kind |-> "error", status |-> 0, header |-> None,
      body |-> [json |-> "unparsable", id |-> None]]}
    \cup [kind : {"http"}, status : {200, 201, 401},
          header : {None, "", "tok1"}, body : AuthBodies]

(* Items of a credentials list: JSON objects with optional access and      *)
(* secret, or a JSON value that is not an object.                          *)
Items == {[isDict |-> TRUE, access |-> "AK1", secret |-> "SK1"],
          [isDict |-> TRUE, access |-> "AK2", secret |-> "SK2"],
          [isDict |-> TRUE, access |-> "AK1", secret |-> None],
          [isDict |-> FALSE, access |-> None, secret |-> None]}

RECURSIVE SeqsUpTo(_, _)
SeqsUpTo(S, n) ==
    IF n = 0 THEN {<<>>}
    ELSE LET shorter == SeqsUpTo(S, n - 1)
         IN shorter \cup {Append(s, x) : s \in {t \in shorter : Len(t) = n - 1}, x \in S}

ListBodies ==
    {[json |-> "unparsable", credentials |-> <<>>],
     [json |-> "nonobject", credentials |-> <<>>],
     [json |-> "nokey", credentials |-> <<>>]}
    \cup {[json |-> "ok", credentials |-> s] : s \in SeqsUpTo(Items, MaxCreds)}

ListResponses ==
    {[kind |-> "error", status |-> 0, body |-> [json |-> "unparsable", credentials |-> <<>>]]}
    \cup [kind : {"http"}, status : {200, 500}, body : ListBodies]

(* The 'credential' member of a create response: absent or null (None), a  *)
(* JSON object (possibly empty), or a non-empty JSON string.               *)
NoCredential == [kind |-> "none", access |-> None, secret |-> None, extra |-> FALSE]

Credentials ==
    {NoCredential,
     [kind |-> "dict", access |-> None, secret |-> None, extra |-> FALSE],
     [kind |-> "dict", access |-> None, secret |-> None, extra |-> TRUE],
     [kind |-> "dict", access |-> "AK9", secret |-> None, extra |-> FALSE],
     [kind |-> "dict", access |-> "AK9", secret |-> "SK9", extra |-> TRUE],
     [kind |-> "str", access |-> None, secret |-> None, extra |-> FALSE]}

CreateBodies ==
    {[json |-> "unparsable", credential |-> NoCredential],
     [json |-> "nonobject", credential |-> NoCredential]}
    \cup {[json |-> "ok", credential |-> c] : c \in Credentials}

CreateResponses ==
    {[kind |-> "error", status |-> 0, body |-> [json |-> "unparsable", credential |-> NoCredential]]}
    \cup [kind : {"http"}, status : {200, 201, 403}, body : CreateBodies]

\* truth value of the object create_ec2_credentials returns
TruthyCredential(c) ==
    CASE c.kind = "none" -> FALSE
      [] c.kind = "dict" -> c.access # None \/ c.secret # None \/ c.extra
      [] OTHER -> TRUE

(* Operator answers: strings over a small alphabet *)
Whitespace == {" "}
Alphabet == {"y", "Y", "n", "e", "s"} \cup Whitespace
Answers == SeqsUpTo(Alphabet, MaxAnsLen)

----------------------------------------------------------------------------
(* String helpers: an answer is a sequence of one-character strings *)

\* str.lower(), character by character
LowerChar(c) == IF c = "Y" THEN "y" ELSE c

lower(s) == [i \in 1..Len(s) |-> LowerChar(s[i])]

RECURSIVE lstrip(_)
lstrip(s) ==
    IF s # <<>> /\ Head(s) \in Whitespace THEN lstrip(Tail(s)) ELSE s

RECURSIVE rstrip(_)
rstrip(s) ==
    IF s # <<>> /\ s[Len(s)] \in Whitespace
    THEN rstrip(SubSeq(s, 1, Len(s) - 1))
    ELSE s

\* str.strip(): leading and trailing whitespace removed
strip(s) == rstrip(lstrip(s))

----------------------------------------------------------------------------
(* The three service calls, as functions of the service's response.  Each  *)
(* returns its Python return value together with the lines it prints.      *)

AuthRequestOf(pw) ==
    [method |-> "POST", base |-> OS_AUTH_URL, path |-> "/auth/tokens",
     user |-> None, token |-> None, secret |-> pw, tenant_id |-> OS_PROJECT_ID]

ListRequestOf(tok, uid) ==
    [method |-> "GET", base |-> OS_AUTH_URL,
     path |-> "/users/{user_id}/credentials/OS-EC2",
     user |-> uid, token |-> tok, secret |-> None, tenant_id |-> None]

CreateRequestOf(tok, uid) ==
    [method |-> "POST", base |-> OS_AUTH_URL,
     path |-> "/users/{user_id}/credentials/OS-EC2",
     user |-> uid, token |-> tok, secret |-> None, tenant_id |-> OS_PROJECT_ID]

\* get_keystone_token, from the response on: "shape" is "pair" for a
\* two-element tuple and "none" for a bare None
get_keystone_token(resp) ==
    IF resp.kind = "error"
    THEN [shape |-> "pair", token |-> None, user_id |-> None,
          out |-> <<Line("Error during authentication", "exception", 0)>>]
    ELSE IF resp.status # 201
    THEN [shape |-> "none", token |-> None, user_id |-> None,
          out |-> <<Line("Error authenticating", "status", resp.status),
                    Line("response.text", "body", 0)>>]
    ELSE IF resp.body.json # "ok"
    THEN [shape |-> "pair", token |-> None, user_id |-> None,
          out |-> <<Line("Error during authentication", "exception", 0)>>]
    ELSE [shape |-> "pair", token |-> resp.header, user_id |-> resp.body.id,
          out |-> <<>>]

\* faulty variant of list_ec2_credentials: a transport error is not caught
list_ec2_credentials_Uncaught(resp) ==
    IF resp.kind = "error"
    THEN [value |-> <<>>, raised |-> TRUE, out |-> <<>>]
    ELSE IF resp.status = 200 /\ resp.body.json = "ok"
    THEN [value |-> resp.body.credentials, raised |-> FALSE, out |-> <<>>]
    ELSE [value |-> <<>>, raised |-> FALSE,
          out |-> <<Line("Error listing credentials", "status", resp.status)>>]

\* list_ec2_credentials, from the response on
list_ec2_credentials(resp) ==
    IF resp.kind = "error"
    THEN [value |-> <<>>, raised |-> FALSE,
          out |-> <<Line("Error listing credentials", "exception", 0)>>]
    ELSE IF resp.status = 200
    THEN CASE resp.body.json = "ok" ->
                [value |-> resp.body.credentials, raised |-> FALSE, out |-> <<>>]
           [] resp.body.json = "nokey" ->
                [value |-> <<>>, raised |-> FALSE, out |-> <<>>]
           [] OTHER ->
                [value |-> <<>>, raised |-> FALSE,
                 out |-> <<Line("Error listing credentials", "exception", 0)>>]
    ELSE [value |-> <<>>, raised |-> FALSE,
          out |-> <<Line("Error listing credentials", "status", resp.status),
                    Line("response.text", "body", 0)>>]

\* faulty variant of create_ec2_credentials: only 201 counts as success
create_ec2_credentials_Only201(resp) ==
    IF resp.kind = "http" /\ resp.status = 201 /\ resp.body.json = "ok"
    THEN [value |-> resp.body.credential, out |-> <<>>]
    ELSE [value |-> NoCredential,
          out |-> <<Line("Error creating EC2 credentials", "status", resp.status)>>]

\* create_ec2_credentials, from the response on
create_ec2_credentials(resp) ==
    IF resp.kind = "error"
    THEN [value |-> NoCredential,
          out |-> <<Line("Error creating credentials", "exception", 0)>>]
    ELSE IF resp.status \in {200, 201}
    THEN CASE resp.body.json = "ok" ->
                [value |-> resp.body.credential, out |-> <<>>]
           [] OTHER ->
                [value |-> NoCredential,
                 out |-> <<Line("Error creating credentials", "exception", 0)>>]
    ELSE [value |-> NoCredential,
          out |-> <<Line("Error creating EC2 credentials", "status", resp.status),
                    Line("response.text", "body", 0)>>]

----------------------------------------------------------------------------
(* main() *)

Init ==
    /\ pc = "Start"
    /\ password = None
    /\ token = None
    /\ user_id = None
    /\ existing = <<>>
    /\ create_new = <<>>
    /\ credential = NoCredential
    /\ printed = <<>>
    /\ exit = <<>>
    /\ requests = <<>>
    /\ inflight = 0
    /\ prompts = 0
    /\ authResp = NoResp
    /\ authRet = [shape |-> "unset", token |-> None, user_id |-> None, out |-> <<>>]
    /\ listResp = NoResp
    /\ createResp = NoResp
    /\ answer = <<>>
    /\ crash = None
    /\ path = <<"Start">>

\* main() moves on to position p
Goto(p) ==
    /\ pc' = p
    /\ path' = Append(path, p)

\* requests.post / requests.get: the request leaves and the call blocks
Send(req) ==
    /\ requests' = Append(requests, req)
    /\ inflight' = inflight + 1

\* the blocking call returns (a response or a transport error)
Receive == inflight' = inflight - 1

\* an exception leaves main(): the interpreter prints a traceback and the
\* process exits with status 1
Raise(exc) ==
    /\ Goto("Crashed")
    /\ crash' = exc
    /\ exit' = <<1>>

\* return n from main(), then sys.exit(n)
Return(n) ==
    /\ Goto(IF n = 0 THEN "Done" ELSE "Fail")
    /\ exit' = <<n>>
    /\ crash' = crash

\* lines 130-142: banner, getpass, then the token request is sent
main_start ==
    /\ pc = "Start"
    /\ \E pw \in Passwords :
        /\ password' = pw
        /\ Send(AuthRequestOf(pw))
    /\ printed' = printed \o <<Line("Infomaniak OpenStack EC2 Credentials Generator", "", 0),
                               Line("Authenticating...", "", 0)>>
    /\ Goto("AuthRequest")
    /\ UNCHANGED <<token, user_id, existing, create_new, credential, exit,
                   prompts, authResp, authRet, listResp, createResp, answer, crash>>

\* "token, user_id = ..." works on a two-element tuple only
CanUnpack(ret) == ret.shape = "pair"

\* faulty variant of AuthSucceeded: the user id is not tested
AuthSucceeded_TokenOnly(tok, uid) == Truthy(tok)

\* line 144, negated: both the token and the user id are truthy
AuthSucceeded(tok, uid) == Truthy(tok) /\ Truthy(uid)

\* lines 47-67 and 142-150: the token request returns, get_keystone_token
\* returns, main unpacks the result and tests it
main_authenticate ==
    /\ pc = "AuthRequest"
    /\ \E resp \in AuthResponses :
        LET ret == get_keystone_token(resp) IN
        /\ authResp' = resp
        /\ authRet' = ret
        /\ Receive
        /\ IF ~CanUnpack(ret)
           THEN /\ Raise("TypeError")
                /\ printed' = printed \o ret.out
                /\ UNCHANGED <<token, user_id>>
           ELSE /\ token' = ret.token
                /\ user_id' = ret.user_id
                /\ IF AuthSucceeded(ret.token, ret.user_id)
                   THEN /\ printed' = printed \o ret.out
                            \o <<Line("Authentication successful!", "", 0),
                                 Line("User ID", Str(ret.user_id), 0)>>
                        /\ Goto("Authenticated")
                        /\ UNCHANGED <<exit, crash>>
                   ELSE /\ printed' = printed \o ret.out
                            \o <<Line("Failed to authenticate. Please check your password.", "", 0)>>
                        /\ Return(1)
    /\ UNCHANGED <<password, existing, create_new, credential, requests,
                   prompts, listResp, createResp, answer>>

\* lines 153-154 and 90-93: the list request is sent
main_list_request ==
    /\ pc = "Authenticated"
    /\ printed' = Append(printed, Line("Checking existing EC2 credentials...", "", 0))
    /\ Send(ListRequestOf(token, user_id))
    /\ Goto("ListRequest")
    /\ UNCHANGED <<password, token, user_id, existing, create_new, credential,
                   exit, prompts, authResp, authRet, listResp, createResp,
                   answer, crash>>

\* lines 95-102 and 154: the list request returns and main binds existing
main_listed ==
    /\ pc = "ListRequest"
    /\ \E resp \in ListResponses :
        LET ret == list_ec2_credentials(resp) IN
        /\ listResp' = resp
        /\ Receive
        /\ IF ret.raised
           THEN /\ Raise("Exception")
                /\ UNCHANGED existing
           ELSE /\ existing' = ret.value
                /\ Goto("Listed")
                /\ UNCHANGED <<exit, crash>>
        /\ printed' = printed \o ret.out
    /\ UNCHANGED <<password, token, user_id, create_new, credential, requests,
                   prompts, authResp, authRet, createResp, answer>>

\* index of the first item of the list that has no .get (not a dict), or 0
FirstNonDict(s) ==
    IF \E i \in 1..Len(s) : ~s[i].isDict
    THEN CHOOSE i \in 1..Len(s) :
            /\ ~s[i].isDict
            /\ \A j \in 1..(i - 1) : s[j].isDict
    ELSE 0

\* lines 158-159: one line per credential, up to the item whose .get raises
ListingLines(s) ==
    LET n == IF FirstNonDict(s) = 0 THEN Len(s) ELSE FirstNonDict(s) - 1
    IN [i \in 1..n |-> Line("  - Access Key", Str(s[i].access), 0)]

\* faulty variant of HasExisting: "if existing is not None"
HasExisting_NotNone(s) == Len(s) >= 0

\* line 156: "if existing"
HasExisting(s) == Len(s) > 0

\* faulty variant of StartCreate: the create request is sent a second time
StartCreate_Twice(out) ==
    /\ printed' = printed \o out \o <<Line("Creating new EC2 credentials...", "", 0)>>
    /\ requests' = requests \o <<CreateRequestOf(token, user_id), CreateRequestOf(token, user_id)>>
    /\ inflight' = inflight + 1
    /\ Goto("CreateRequest")
    /\ UNCHANGED <<exit, crash>>

\* lines 172-173 and 111-118: the create request is sent
StartCreate(out) ==
    /\ printed' = printed \o out \o <<Line("Creating new EC2 credentials...", "", 0)>>
    /\ Send(CreateRequestOf(token, user_id))
    /\ Goto("CreateRequest")
    /\ UNCHANGED <<exit, crash>>

\* lines 156-161: the credentials found are printed and the prompt is shown,
\* or (nothing found) the run goes on to create
main_decide ==
    /\ pc = "Listed"
    /\ IF HasExisting(existing)
       THEN IF FirstNonDict(existing) # 0
            THEN /\ Raise("AttributeError")
                 /\ printed' = printed
                        \o <<Line("Found existing EC2 credential(s)", "", Len(existing))>>
                        \o ListingLines(existing)
                 /\ UNCHANGED <<requests, inflight, prompts>>
            ELSE /\ printed' = printed
                        \o <<Line("Found existing EC2 credential(s)", "", Len(existing))>>
                        \o ListingLines(existing)
                        \o <<Line("Create new credentials? (y/n): ", "", 0)>>
                 /\ prompts' = prompts + 1
                 /\ Goto("Prompt")
                 /\ UNCHANGED <<requests, inflight, exit, crash>>
       ELSE /\ StartCreate(<<>>)
            /\ UNCHANGED prompts
    /\ UNCHANGED <<password, token, user_id, existing, create_new, credential,
                   authResp, authRet, listResp, createResp, answer>>

\* faulty variant of Normalize: the answer is not stripped
Normalize_NoStrip(ans) == lower(ans)

\* line 161: the answer as main compares it
Normalize(ans) == strip(lower(ans))

\* line 162, negated: the operator asked for new credentials
IsAffirmative(cn) == cn = <<"y">>

\* faulty variant of ReusedRecord: the last record instead of the first
ReusedRecord_Last(s) == s[Len(s)]

\* line 165: the record that is reused
ReusedRecord(s) == s[1]

\* lines 161-169: the operator answers; anything but y reuses and returns 0
main_answer ==
    /\ pc = "Prompt"
    /\ \E ans \in Answers :
        /\ answer' = ans
        /\ create_new' = Normalize(ans)
        /\ IF ~IsAffirmative(Normalize(ans))
           THEN /\ printed' = printed
                        \o <<Line("Using existing credentials:", "", 0)>>
                        \o (IF HasExisting(existing)
                            THEN <<Line("Access Key ID", Str(ReusedRecord(existing).access), 0),
                                   Line("Secret Access Key", Str(ReusedRecord(existing).secret), 0)>>
                            ELSE <<>>)
                /\ Return(0)
                /\ UNCHANGED <<requests, inflight>>
           ELSE StartCreate(<<>>)
    /\ UNCHANGED <<password, token, user_id, existing, credential, prompts,
                   authResp, authRet, listResp, createResp>>

\* lines 120-127 and 173-188: the create request returns; the credential is
\* printed and main returns 0, or main reports the failure and returns 1
main_created ==
    /\ pc = "CreateRequest"
    /\ \E resp \in CreateResponses :
        LET ret == create_ec2_credentials(resp) IN
        /\ createResp' = resp
        /\ credential' = ret.value
        /\ Receive
        /\ IF TruthyCredential(ret.value)
           THEN IF ret.value.kind # "dict"
                THEN /\ printed' = printed \o ret.out
                            \o <<Line("EC2 credentials created successfully!", "", 0)>>
                     /\ Raise("AttributeError")
                ELSE /\ printed' = printed \o ret.out
                            \o <<Line("EC2 credentials created successfully!", "", 0),
                                 Line("Access Key ID", Str(ret.value.access), 0),
                                 Line("Secret Access Key", Str(ret.value.secret), 0),
                                 Line("aws configure set aws_access_key_id", Str(ret.value.access), 0),
                                 Line("aws configure set aws_secret_access_key", Str(ret.value.secret), 0)>>
                     /\ Return(0)
           ELSE /\ printed' = printed \o ret.out
                       \o <<Line("Failed to create EC2 credentials.", "", 0)>>
                /\ Return(1)
    /\ UNCHANGED <<password, token, user_id, existing, create_new, requests,
                   prompts, authResp, authRet, listResp, answer>>

Next ==
    \/ main_start
    \/ main_authenticate
    \/ main_list_request
    \/ main_listed
    \/ main_decide
    \/ main_answer
    \/ main_created

Spec == Init /\ [][Next]_vars

----------------------------------------------------------------------------
(* Vocabulary of the properties *)

Visited(p) == \E i \in 1..Len(path) : path[i] = p

\* main() has passed position p and left it
Passed(p) == Visited(p) /\ pc # p

Printed(tag) == \E i \in 1..Len(printed) : printed[i].tag = tag

\* the values printed on the lines with this tag, in order
RECURSIVE ValuesOf(_, _)
ValuesOf(lines, tag) ==
    IF lines = <<>> THEN <<>>
    ELSE (IF Head(lines).tag = tag THEN <<Head(lines).val>> ELSE <<>>)
         \o ValuesOf(Tail(lines), tag)

IsAuthRequest(r) == r.method = "POST" /\ r.path = "/auth/tokens"
IsListRequest(r) == r.method = "GET" /\ r.path = "/users/{user_id}/credentials/OS-EC2"
IsCreateRequest(r) == r.method = "POST" /\ r.path = "/users/{user_id}/credentials/OS-EC2"

Issued(P(_)) == Cardinality({i \in 1..Len(requests) : P(requests[i])})

Terminated == exit # <<>>

\* order of the positions of a run
Rank(p) ==
    CASE p = "Start" -> 0
      [] p = "AuthRequest" -> 1
      [] p = "Authenticated" -> 2
      [] p = "ListRequest" -> 3
      [] p = "Listed" -> 4
      [] p = "Prompt" -> 5
      [] p = "CreateRequest" -> 6
      [] OTHER -> 7

TypeOK ==
    /\ pc \in PCs
    /\ password \in Passwords \cup {None}
    /\ inflight \in 0..3
    /\ prompts \in 0..3
    /\ exit \in {<<>>, <<0>>, <<1>>}
    /\ Len(existing) <= MaxCreds
    /\ Len(answer) <= MaxAnsLen

\* the token response the service documents as success: 201, a non-empty
\* X-Subject-Token header and a body carrying a non-empty token.user.id
GoodAuthResponse(r) ==
    /\ r.kind = "http"
    /\ r.status = 201
    /\ r.header \notin {None, ""}
    /\ r.body.json = "ok"
    /\ r.body.id \notin {None, ""}

----------------------------------------------------------------------------
(* C1: when the token request is answered with a status other than 201,    *)
(* the run prints an error, main ends the run with exit code 1 by          *)
(* reporting the authentication failure, and neither the list request nor  *)
(* the create request is issued.                                           *)
C1_Non201ReportsAuthFailure ==
    (authResp.kind = "http" /\ authResp.status # 201) =>
        /\ Printed("Error authenticating")
        /\ pc = "Fail"
        /\ exit = <<1>>
        /\ Printed("Failed to authenticate. Please check your password.")
        /\ Issued(IsListRequest) = 0
        /\ Issued(IsCreateRequest) = 0

(* C9: every return path of get_keystone_token yields a two-element        *)
(* (token, user_id) result, so the unpacking in main never fails and every *)
(* run ends by main returning 0 or 1, not by an unhandled exception.       *)
C9_AlwaysReturnsPair ==
    /\ authRet.shape \in {"unset", "pair"}
    /\ crash # "TypeError"
    /\ Terminated => pc \in {"Done", "Fail"}

(* C6: the run reaches Authenticated, with a non-empty token and a         *)
(* non-empty user id, exactly when the service answers 201 with an         *)
(* X-Subject-Token header and a body carrying token.user.id; in every      *)
(* other case the result is an authentication failure (main reports it and *)
(* returns 1) and Authenticated is never reached.                          *)
C6_AuthenticatedIffGoodResponse ==
    authResp.kind # "none" =>
        IF GoodAuthResponse(authResp)
        THEN /\ Visited("Authenticated")
             /\ token \notin {None, ""}
             /\ user_id \notin {None, ""}
        ELSE /\ ~Visited("Authenticated")
             /\ pc = "Fail"
             /\ exit = <<1>>
             /\ Printed("Failed to authenticate. Please check your password.")

\* What does hold of the token exchange: Authenticated is reached exactly on
\* a good response, and every other response ends the run with exit status 1
\* before any further request (by return 1 or by the TypeError of C9).
AuthenticatedOnlyOnGoodResponse ==
    authResp.kind # "none" =>
        IF GoodAuthResponse(authResp)
        THEN /\ Visited("Authenticated")
             /\ token = authResp.header
             /\ user_id = authResp.body.id
        ELSE /\ ~Visited("Authenticated")
             /\ exit = <<1>>
             /\ Len(requests) = 1

----------------------------------------------------------------------------
(* C2: a run moves forward only, Start -> Authenticated -> Listed ->       *)
(* reuse or create -> end: the positions visited strictly advance, the     *)
(* requests issued are a prefix of <<authenticate, list, create>> (each at *)
(* most once, in that order), the list request exists only after a         *)
(* successful authentication, the create request only after the list step  *)
(* has returned, and at most one request is in flight.                     *)
C2_LinearOrder ==
    /\ \A i \in 1..(Len(path) - 1) : Rank(path[i]) < Rank(path[i + 1])
    /\ Len(requests) <= 3
    /\ Len(requests) >= 1 => IsAuthRequest(requests[1])
    /\ Len(requests) >= 2 =>
          /\ IsListRequest(requests[2])
          /\ GoodAuthResponse(authResp)
          /\ Visited("Authenticated")
    /\ Len(requests) >= 3 =>
          /\ IsCreateRequest(requests[3])
          /\ listResp.kind # "none"
          /\ Visited("Listed")
    /\ inflight \in {0, 1}
    /\ inflight = 1 <=> pc \in {"AuthRequest", "ListRequest", "CreateRequest"}

C2_Witness ==
    /\ pc = "Done"
    /\ Len(requests) = 3
    /\ prompts = 1

(* C3: when the list step returned a non-empty sequence of records and the *)
(* operator's answer is not the affirmative, the run prints the access and *)
(* the secret of the first listed record and of no other, exits with code  *)
(* 0 and issues no create request; when it is the affirmative, the create  *)
(* request is issued.                                                      *)
C3_ReuseFirstRecord ==
    Passed("Prompt") =>
        IF create_new # <<"y">>
        THEN /\ pc = "Done"
             /\ exit = <<0>>
             /\ Issued(IsCreateRequest) = 0
             /\ ValuesOf(printed, "Access Key ID") = <<Str(existing[1].access)>>
             /\ ValuesOf(printed, "Secret Access Key") = <<Str(existing[1].secret)>>
        ELSE Issued(IsCreateRequest) = 1

C3_Witness ==
    /\ Passed("Prompt")
    /\ answer = <<"n">>
    /\ Len(existing) = 2
    /\ existing[1].access = "AK2"
    /\ existing[2].access = "AK1"
    /\ ValuesOf(printed, "Access Key ID") = <<"AK2">>
    /\ ValuesOf(printed, "Secret Access Key") = <<"SK2">>
    /\ exit = <<0>>

(* C4: when authentication succeeded and the list step yields an empty     *)
(* sequence, the run issues the create request directly: the (y/n) prompt  *)
(* is never shown in that run.                                             *)
C4_EmptyListCreatesDirectly ==
    (Passed("Listed") /\ existing = <<>>) =>
        /\ prompts = 0
        /\ ~Visited("Prompt")
        /\ ~Printed("Create new credentials? (y/n): ")
        /\ Issued(IsCreateRequest) = 1
        /\ \A i \in 1..(Len(path) - 1) :
              path[i] = "Listed" => path[i + 1] = "CreateRequest"

C4_Witness ==
    /\ pc = "CreateRequest"
    /\ listResp.kind = "http"
    /\ listResp.status = 200
    /\ listResp.body.json = "ok"
    /\ existing = <<>>
    /\ prompts = 0

\* the list outcomes that are service errors: a transport error, a status
\* other than 200, or a 200 whose body is not a JSON object
ListFailed(r) ==
    \/ r.kind = "error"
    \/ r.kind = "http" /\ r.status # 200
    \/ r.kind = "http" /\ r.status = 200 /\ r.body.json \in {"unparsable", "nonobject"}

(* C5: list_ec2_credentials never raises: on a non-200 status, a transport *)
(* error or an unparsable body it returns the empty sequence, and the run  *)
(* is not ended by the failure but goes on to the create step.             *)
C5_ListFailureIsEmptyList ==
    (listResp.kind # "none" /\ ListFailed(listResp)) =>
        /\ existing = <<>>
        /\ Visited("Listed")
        /\ Printed("Error listing credentials")
        /\ pc = "Listed" => ~Terminated
        /\ Passed("Listed") =>
              /\ Visited("CreateRequest")
              /\ Issued(IsCreateRequest) = 1
              /\ prompts = 0

C5_Witness ==
    /\ listResp.kind = "http"
    /\ listResp.status = 500
    /\ listResp.body.json = "ok"
    /\ Len(listResp.body.credentials) = 2
    /\ pc = "CreateRequest"

\* a create response that carries a credential record: a non-empty JSON
\* object under 'credential'
HasRecord(r) ==
    /\ r.body.json = "ok"
    /\ r.body.credential.kind = "dict"
    /\ \/ r.body.credential.access # None
       \/ r.body.credential.secret # None
       \/ r.body.credential.extra

\* no record: the body is not a JSON object, or 'credential' is absent,
\* null or empty
MissingRecord(r) ==
    \/ r.body.json # "ok"
    \/ r.body.credential.kind = "none"
    \/ /\ r.body.credential.kind = "dict"
       /\ r.body.credential.access = None
       /\ r.body.credential.secret = None
       /\ ~r.body.credential.extra

C8_OnePromptOneCreate ==
    /\ prompts <= 1
    /\ Cardinality({i \in 1..Len(printed) :
                      printed[i].tag = "Create new credentials? (y/n): "}) = prompts
    /\ \A i \in 1..Len(requests) :
          \/ IsAuthRequest(requests[i])
          \/ IsListRequest(requests[i])
          \/ IsCreateRequest(requests[i])
    /\ \A i \in 1..Len(requests) : requests[i].method \notin {"DELETE", "PUT", "PATCH"}
    /\ Issued(IsCreateRequest) <= 1

C8_Witness ==
    /\ prompts = 1
    /\ Issued(IsCreateRequest) = 1
    /\ Terminated

\* an answer that is the letter y in either case, surrounded by any amount
\* of whitespace and nothing else
IsYesAnswer(a) ==
    \E i \in 1..Len(a) :
        /\ a[i] \in {"y", "Y"}
        /\ \A j \in 1..Len(a) : j # i => a[j] \in Whitespace

(* C10: the answer counts as affirmative exactly when, lower-cased and     *)
(* trimmed of surrounding whitespace, it is the single letter y: "Y" and   *)
(* " y " lead to the create request; every other answer, the empty one and *)
(* "yes" included, reuses the first listed record with exit code 0 and no  *)
(* create request.                                                         *)
C10_AffirmativeIsExactlyY ==
    Passed("Prompt") =>
        /\ IsYesAnswer(answer) <=> Issued(IsCreateRequest) = 1
        /\ answer \in {<<"Y">>, <<" ", "y", " ">>, <<"y">>, <<"Y", " ">>} =>
              Visited("CreateRequest")
        /\ answer \in {<<>>, <<"y", "e", "s">>, <<"n">>, <<"y", "y">>, <<"y", " ", "y">>, <<" ">>} =>
              ~Visited("CreateRequest")
        /\ ~IsYesAnswer(answer) =>
              /\ pc = "Done"
              /\ exit = <<0>>
              /\ Issued(IsCreateRequest) = 0
              /\ ValuesOf(printed, "Access Key ID") = <<Str(existing[1].access)>>

C10_Witness ==
    /\ Passed("Prompt")
    /\ answer = <<" ", "Y", " ">>
    /\ create_new = <<"y">>
    /\ Visited("CreateRequest")

====
